---- MODULE Spec2Model ----
(***************************************************************************)
(* Binomial proportion test of the A/B-testing notebook (src/abtest.ipynb)  *)
(* and the p-value experiment of the hypothesis-testing notebook            *)
(* (src/unnamed/part_000).                                                  *)
(*                                                                          *)
(* Probabilities are exact rationals.  The baseline rate is p0 = pnum/pden  *)
(* and every probability of Binomial(n, p0) is kept as an integer numerator *)
(* over the common denominator pden^n, so that "equals", "at most" and      *)
(* "exactly 1" are decided without rounding.                                *)
(***************************************************************************)
EXTENDS Integers, Sequences, FiniteSets, TLC

VARIABLES pc, call, result, frames, globals, log

\* one invocation at a time: its position, its arguments and its outcome
seq == <<pc, call, result>>

\* invocations in flight together: each caller's own frame, the names the
\* cells assign at module level, and the results returned so far per input
conc == <<frames, globals, log>>

vars == <<pc, call, result, frames, globals, log>>

(* ------------------------------ bounds --------------------------------- *)

\* largest number of trials n explored
MaxN == 10

\* largest denominator of the baseline rate p0 = pnum/pden
MaxDen == 4

\* denominator of the significance level alpha = anum/AlphaDen
AlphaDen == 4

\* number of invocations that may be in flight together
NCallers == 2

\* largest number of trials n the quantile is asked for
MaxPpfN == 8

\* denominator of the quantile level q = qnum/QDen, as in 0.99 = 99/100
QDen == 100

\* largest distance of the sample mean from mu, in half standard errors
MaxZ == 6

(* ------------------------------ inputs --------------------------------- *)

Alternatives == {"greater", "less", "two-sided"}

\* trial counts, including the invalid n = 0 and n = -1
NValues == -1 .. MaxN

\* success counts for n trials, including the invalid -1 and n+1
CValues(n) == -1 .. (n + 1)

\* baseline rates pnum/pden, including the invalid -1/pden and (pden+1)/pden
\* and the degenerate 0 and 1
Rates == { <<a, d>> \in (-1 .. (MaxDen + 1)) \X (2 .. MaxDen) : a <= d + 1 }

\* baseline rates strictly inside (0, 1)
InteriorRates == { r \in Rates : r[1] > 0 /\ r[1] < r[2] }

(* --------------------------- exact arithmetic -------------------------- *)

RECURSIVE Pow(_, _)
Pow(b, e) == IF e = 0 THEN 1 ELSE b * Pow(b, e - 1)

RECURSIVE Choose(_, _)
Choose(n, k) ==
    IF k < 0 \/ k > n THEN 0
    ELSE IF k = 0 \/ k = n THEN 1
    ELSE Choose(n - 1, k - 1) + Choose(n - 1, k)

Min(a, b) == IF a <= b THEN a ELSE b

Abs(a) == IF a < 0 THEN -a ELSE a

\* the probability 1 as a numerator over pden^n
One(n, pden) == Pow(pden, n)

(* ------------------- scipy.stats.binom, as the cells use it ------------ *)

\* stats.binom.pmf(k, n, p): C(n,k) p^k (1-p)^(n-k), zero off the support
BinomPmf(k, n, pnum, pden) ==
    IF k < 0 \/ k > n THEN 0
    ELSE Choose(n, k) * Pow(pnum, k) * Pow(pden - pnum, n - k)

\* stats.binom.cdf(k, n, p) = P(X <= k); cdf(-1) = 0
RECURSIVE BinomCdf(_, _, _, _)
BinomCdf(k, n, pnum, pden) ==
    IF k < 0 THEN 0
    ELSE IF k > n THEN BinomCdf(n, n, pnum, pden)
    ELSE BinomCdf(k - 1, n, pnum, pden) + BinomPmf(k, n, pnum, pden)

\* stats.binom.sf(k, n, p) = P(X > k), summed directly from the upper end
RECURSIVE BinomSf(_, _, _, _)
BinomSf(k, n, pnum, pden) ==
    IF k >= n THEN 0
    ELSE IF k < -1 THEN BinomSf(-1, n, pnum, pden)
    ELSE BinomSf(k + 1, n, pnum, pden) + BinomPmf(k + 1, n, pnum, pden)

\* the quantile levels explored: 0, 0.01, 0.25, 0.5, 0.75, 0.99, 1
QNums == {0, 1, 25, 50, 75, 99, QDen}

\* the smallest k in from..n with CDF(k; n, p) >= q, n when there is none
RECURSIVE FirstAtLeast(_, _, _, _, _)
FirstAtLeast(from, qnum, n, pnum, pden) ==
    IF from >= n THEN n
    ELSE IF BinomCdf(from, n, pnum, pden) * QDen >= qnum * One(n, pden)
         THEN from
         ELSE FirstAtLeast(from + 1, qnum, n, pnum, pden)

\* the smallest k in from..n with CDF(k; n, p) > q, n when there is none
RECURSIVE FirstAbove(_, _, _, _, _)
FirstAbove(from, qnum, n, pnum, pden) ==
    IF from >= n THEN n
    ELSE IF BinomCdf(from, n, pnum, pden) * QDen > qnum * One(n, pden)
         THEN from
         ELSE FirstAbove(from + 1, qnum, n, pnum, pden)

\* slip: the first count whose accumulated probability is above q
binom_ppf_above(qnum, n, pnum, pden) ==
    IF qnum = 0 THEN -1
    ELSE FirstAbove(0, qnum, n, pnum, pden)

\* stats.binom.ppf(q, n=n, p=p): the lower end of the support minus one
\* at q = 0, otherwise the first count whose accumulated probability
\* reaches q
binom_ppf(qnum, n, pnum, pden) ==
    IF qnum = 0 THEN -1
    ELSE FirstAtLeast(0, qnum, n, pnum, pden)

(* ------------------------- the Increasing N loop ----------------------- *)

\* pa = 0.10, the baseline rate of the loop, as PaNum/PaDen
PaNum == 1
PaDen == 10

\* pb = 0.20, the rate of group B in the loop, as PbNum/PbDen
PbNum == 1
PbDen == 5

\* for nb in range(StartNb, EndNb)
StartNb == 5
EndNb == 100

\* pden^n does not fit a machine integer for the larger n (10^99 in the
\* loop, 100^100 in the cells): the numerators are kept exactly, as
\* NLimbs digits in radix Base, least significant first
Base == 10000
NLimbs == (EndNb \div 2) + 3

\* the small number x < Base
BigOfInt(x) == [i \in 1 .. NLimbs |-> IF i = 1 THEN x ELSE 0]

RECURSIVE MulFrom(_, _, _, _)
MulFrom(a, m, i, carry) ==
    IF i > NLimbs THEN << >>
    ELSE <<(a[i] * m + carry) % Base>>
             \o MulFrom(a, m, i + 1, (a[i] * m + carry) \div Base)

\* a * m for a small m
BigMul(a, m) == MulFrom(a, m, 1, 0)

RECURSIVE AddFrom(_, _, _, _)
AddFrom(a, b, i, carry) ==
    IF i > NLimbs THEN << >>
    ELSE <<(a[i] + b[i] + carry) % Base>>
             \o AddFrom(a, b, i + 1, (a[i] + b[i] + carry) \div Base)

\* a + b
BigAdd(a, b) == AddFrom(a, b, 1, 0)

RECURSIVE SubFrom(_, _, _, _)
SubFrom(a, b, i, borrow) ==
    IF i > NLimbs THEN << >>
    ELSE <<(a[i] - b[i] - borrow + Base) % Base>>
             \o SubFrom(a, b, i + 1,
                        IF a[i] - b[i] - borrow < 0 THEN 1 ELSE 0)

\* a - b, for a >= b
BigSub(a, b) == SubFrom(a, b, 1, 0)

\* the digits of a \div d from digit i downwards, most significant first
RECURSIVE DivFrom(_, _, _, _)
DivFrom(a, d, i, rem) ==
    IF i = 0 THEN << >>
    ELSE <<(rem * Base + a[i]) \div d>>
             \o DivFrom(a, d, i - 1, (rem * Base + a[i]) % d)

\* the digits q, least significant first
Reversed(q) == SubSeq([i \in 1 .. NLimbs |-> q[NLimbs + 1 - i]], 1, NLimbs)

\* a \div d for a small d
BigDiv(a, d) == Reversed(DivFrom(a, d, NLimbs, 0))

\* a machine integer x >= 0, which has at most three digits
BigOfMachineInt(x) ==
    [i \in 1 .. NLimbs |->
        IF i = 1 THEN x % Base
        ELSE IF i = 2 THEN (x \div Base) % Base
        ELSE IF i = 3 THEN x \div (Base * Base)
        ELSE 0]

\* a < b
BigLess(a, b) ==
    \E i \in 1 .. NLimbs :
        /\ a[i] < b[i]
        /\ \A j \in (i + 1) .. NLimbs : a[j] = b[j]

\* stats.binom.cdf(k, n=n, p=pnum/pden), 0 < pnum < pden, is summed one
\* term at a time.  The registers of the summation: first pden^n (one)
\* and pmf(0) = (pden - pnum)^n (term) are built factor by factor, then
\* pmf(0), ..., pmf(k) are added to acc, each term made from the last;
\* prev is the sum before its last term, CDF(k-1) at the end
ExactStart(k, n, pnum, pden) ==
    [k |-> k, n |-> n, pnum |-> pnum, pden |-> pden,
     phase |-> "power", i |-> 0,
     one |-> BigOfInt(1), term |-> BigOfInt(1), acc |-> BigOfInt(0),
     prev |-> BigOfInt(0)]

\* pmf(i + 1) from pmf(i) = Choose(n, i) * pnum^i * (pden - pnum)^(n - i)
NextTerm(ev) ==
    BigDiv(BigMul(BigMul(BigDiv(ev.term, ev.pden - ev.pnum), ev.pnum),
                  ev.n - ev.i),
           ev.i + 1)

\* one step of the summation
ExactStep(ev) ==
    IF ev.phase = "power"
    THEN IF ev.i < ev.n
         THEN [ev EXCEPT !.i = @ + 1,
                         !.one = BigMul(@, ev.pden),
                         !.term = BigMul(@, ev.pden - ev.pnum)]
         ELSE [ev EXCEPT !.phase = "sum", !.i = 0]
    ELSE IF ev.i > ev.k \/ ev.i > ev.n
         THEN [ev EXCEPT !.phase = "done"]
         ELSE [ev EXCEPT !.i = @ + 1,
                         !.acc = BigAdd(@, ev.term),
                         !.prev = ev.acc,
                         !.term = IF ev.i < ev.n THEN NextTerm(ev)
                                  ELSE BigOfInt(0)]

\* 1 - stats.binom.cdf(k, n=n, p=p) once the summation is done, over
\* pden^n
ExactUpper(ev) == BigSub(ev.one, ev.acc)

\* slip: nb is divided by pb
loop_cb_inverse(nb) == (nb * PbDen) \div PbNum

\* slip: the number of conversions is rounded to the nearest integer
loop_cb_rounded(nb) == (2 * nb * PbNum + PbDen) \div (2 * PbDen)

\* cb = int(nb * pb): the fractional part is dropped
loop_cb(nb) == (nb * PbNum) \div PbDen

\* slip: the loop hands cb - 1 to binom.cdf, as the other cells do
loop_k_inclusive(cb) == cb - 1

\* the first argument of stats.binom.cdf(cb, n=nb, p=pa) in the loop
loop_k(cb) == cb

\* the summation of 1-stats.binom.cdf(cb, n=nb, p=pa) for one nb
loop_eval(nb) == ExactStart(loop_k(loop_cb(nb)), nb, PaNum, PaDen)

(* --------------------------- the normal test --------------------------- *)

\* the standard normal CDF at 0, 0.5, 1, ..., 3 standard deviations, in
\* thousandths
PhiTable == <<500, 691, 841, 933, 977, 994, 999>>

\* probability one in the unit of PhiTable: twice the CDF at the mean
NormOne == 2 * PhiTable[1]

\* the means mu of the null distribution explored
MuValues == {0, 3}

\* st.norm.cdf(x, loc=mu, scale=sigma_xbar), x and mu in half standard
\* errors: symmetric about mu, and 1 (0) beyond the table's last entry
norm_cdf(x, mu) ==
    LET h == x - mu IN
    IF h >= Len(PhiTable) THEN NormOne
    ELSE IF h >= 0 THEN PhiTable[h + 1]
    ELSE IF -h >= Len(PhiTable) THEN 0
    ELSE NormOne - PhiTable[1 - h]

\* the one-sided p-value p = 1 - st.norm.cdf(xbar, loc=mu, scale=sigma_xbar)
one_sided_z(xbar, mu) == NormOne - norm_cdf(xbar, mu)

\* slip: the upper tail is doubled whatever the side xbar lies on
two_sided_z_upper(xbar, mu) == 2 * (NormOne - norm_cdf(xbar, mu))

\* the two-sided p-value: p = 2*(1-st.norm.cdf(xbar, ...)), and
\* p = 2*st.norm.cdf(xbar, ...) if xbar < mu
two_sided_z(xbar, mu) ==
    IF xbar < mu THEN 2 * norm_cdf(xbar, mu)
    ELSE 2 * (NormOne - norm_cdf(xbar, mu))

\* p_values = 2*np.minimum(st.norm.cdf(obs, ...), 1-st.norm.cdf(obs, ...))
two_sided_min(xbar, mu) ==
    2 * Min(norm_cdf(xbar, mu), NormOne - norm_cdf(xbar, mu))

\* the three p-values of one sample mean
z_test(xbar, mu) ==
    [status |-> "ok",
     one |-> one_sided_z(xbar, mu),
     two |-> two_sided_z(xbar, mu),
     twomin |-> two_sided_min(xbar, mu),
     den |-> NormOne]

(* ----------------------------- the p-values ---------------------------- *)

\* slip: the tail taken from c, not c-1, so that it is P(X > c)
pGreater_strict(c, n, pnum, pden) ==
    One(n, pden) - BinomCdf(c, n, pnum, pden)

\* slip: the doubled tail of the two-sided normal test used for 'greater'
pGreater_doubled(c, n, pnum, pden) ==
    2 * (One(n, pden) - BinomCdf(c - 1, n, pnum, pden))

\* slip: the complement forgotten, so that it is the lower tail P(X < c)
pGreater_lower(c, n, pnum, pden) ==
    BinomCdf(c - 1, n, pnum, pden)

\* 1 - stats.binom.cdf(c-1, n=n, p=p): the 'greater' p-value of the cells
pGreater(c, n, pnum, pden) ==
    One(n, pden) - BinomCdf(c - 1, n, pnum, pden)

\* slip: the lower tail stops below c, so that it is P(X < c)
pLess_strict(c, n, pnum, pden) ==
    BinomCdf(c - 1, n, pnum, pden)

\* the 'less' p-value: CDF(c; n, p0)
pLess(c, n, pnum, pden) ==
    BinomCdf(c, n, pnum, pden)

\* slip: the smaller tail is not doubled
pTwoSided_undoubled(c, n, pnum, pden) ==
    Min(pGreater(c, n, pnum, pden), pLess(c, n, pnum, pden))

\* slip: the doubled smaller tail without the cap at 1
pTwoSided_uncapped(c, n, pnum, pden) ==
    2 * Min(pGreater(c, n, pnum, pden), pLess(c, n, pnum, pden))

\* the 'two-sided' p-value: 2 * min(P(X >= c), P(X <= c)), capped at 1
pTwoSided(c, n, pnum, pden) ==
    Min(One(n, pden),
        2 * Min(pGreater(c, n, pnum, pden), pLess(c, n, pnum, pden)))

\* the p-value of one alternative
PValue(c, n, pnum, pden, alternative) ==
    CASE alternative = "greater"   -> pGreater(c, n, pnum, pden)
      [] alternative = "less"      -> pLess(c, n, pnum, pden)
      [] alternative = "two-sided" -> pTwoSided(c, n, pnum, pden)

\* slip: c = n + 1 passes the validation
InvalidParameter_lax(c, n, pnum, pden) ==
    \/ n <= 0
    \/ c < 0
    \/ c > n + 1
    \/ pnum < 0
    \/ pnum > pden

\* the inputs the test rejects: n <= 0, c outside [0, n], p0 outside [0, 1]
InvalidParameter(c, n, pnum, pden) ==
    \/ n <= 0
    \/ c < 0
    \/ c > n
    \/ pnum < 0
    \/ pnum > pden

RECURSIVE Gcd(_, _)
Gcd(a, b) == IF b = 0 THEN a ELSE Gcd(b, a % b)

\* slip: floor division, as c // n
ObservedRate_floor(c, n) ==
    [num |-> c \div n, den |-> 1]

\* c/n: the observed proportion, as the fraction num/den in lowest terms
ObservedRate(c, n) ==
    [num |-> c \div Gcd(c, n), den |-> n \div Gcd(c, n)]

\* test_proportion(c, n, p0, alternative): an error, or the TestResult with
\* the observed proportion, the p-value as the numerator pvalue over the
\* denominator den, and the alternative used
test_proportion(c, n, pnum, pden, alternative) ==
    IF InvalidParameter(c, n, pnum, pden)
    THEN [status |-> "InvalidParameter"]
    ELSE [status      |-> "ok",
          statistic   |-> ObservedRate(c, n),
          pvalue      |-> PValue(c, n, pnum, pden, alternative),
          den         |-> One(n, pden),
          alternative |-> alternative]

(* ------------------------------ the A/B test --------------------------- *)

\* stats.binomtest(k, n=n, p=p, alternative='greater').pvalue
binomtest_greater(k, n, pnum, pden) ==
    BinomSf(k - 1, n, pnum, pden)

\* the cells "The A/B test": pa = ca/na is the baseline, the p-value of
\* group B is computed by hand and then with stats.binomtest
ab_test(ca, na, cb, nb) ==
    LET pa == ObservedRate(ca, na)
    IN  [status  |-> "ok",
         pa      |-> pa,
         pvalue  |-> pGreater(cb, nb, pa.num, pa.den),
         scipy   |-> binomtest_greater(cb, nb, pa.num, pa.den),
         den     |-> One(nb, pa.den)]

\* the cells whose two printed p-values the notebook keeps
RecordedCells == {"ab_test", "classifiers"}

\* the decimals, after "0.", of the two p-values a cell printed: the
\* hand-written 1 - binom.cdf(c-1) and binomtest(...).pvalue
PrintedOutputs(cell) ==
    CASE cell = "ab_test" ->
            [status |-> "ok",
             pvalue |-> <<0,1,1,2,4,8,9,7,8,7,2,0,9,9,1,6,2>>,
             scipy  |-> <<0,1,1,2,4,8,9,7,8,7,2,0,9,9,1,5,8,2>>]
      [] cell = "classifiers" ->
            [status |-> "ok",
             pvalue |-> <<0,9,2,5,6,9,8,7,3,6,7,7,7,5,5,8,2>>,
             scipy  |-> <<0,9,2,5,6,9,8,7,3,6,7,7,7,5,5,8,8>>]

(* ------------------------ the cells of the notebook -------------------- *)

\* the cells that hand a count c out of n trials to a 'greater' test
NotebookCells == {"at_least_k", "new_website", "ab_test", "classifiers"}

\* the numbers written in each cell: the count, the trials, and the
\* baseline rate as a fraction (0.5, 0.1, pa = ca/na = 10/50, 0.77)
CellInputs(cell) ==
    CASE cell = "at_least_k" ->
            [c |-> 6, n |-> 10, pnum |-> 1, pden |-> 2]
      [] cell = "new_website" ->
            [c |-> 10, n |-> 50, pnum |-> 1, pden |-> 10]
      [] cell = "ab_test" ->
            [c |-> 30, n |-> 100,
             pnum |-> ObservedRate(10, 50).num,
             pden |-> ObservedRate(10, 50).den]
      [] cell = "classifiers" ->
            [c |-> 83, n |-> 100, pnum |-> 77, pden |-> 100]

\* the decimals, after "0.", of the value each cell printed
PrintedValue(cell) ==
    CASE cell = "at_least_k"  -> <<3,7,6,9,5,3,1,2,5>>
      [] cell = "new_website" -> <<0,2,4,5,3,7,9,3,5,7,0,4,5,9,1,3,9,6>>
      [] cell = "ab_test"     -> <<0,1,1,2,4,8,9,7,8,7,2,0,9,9,1,6,2>>
      [] cell = "classifiers" -> <<0,9,2,5,6,9,8,7,3,6,7,7,7,5,5,8,2>>

\* slip: the cell hands c to binom.cdf
cell_k_strict(c) == c

\* the first argument of 1 - stats.binom.cdf(c-1, n=n, p=p) in a cell
cell_k(c) == c - 1

\* the summation of 1 - stats.binom.cdf(c-1, n=n, p=p) for one cell
cell_eval(cell) ==
    ExactStart(cell_k(CellInputs(cell).c), CellInputs(cell).n,
               CellInputs(cell).pnum, CellInputs(cell).pden)

(* ----------------- the p-value as a random variable under H0 ----------- *)

\* is the two-sided p-value of count c at most alpha = anum/AlphaDen ?
AtMostAlpha(c, n, pnum, pden, anum) ==
    pTwoSided(c, n, pnum, pden) * AlphaDen <= anum * One(n, pden)

\* P(p-value <= alpha) when c ~ Binomial(n, p0): the mass of the counts
\* 0..k whose two-sided p-value is at most alpha
RECURSIVE RejectionMass(_, _, _, _, _)
RejectionMass(k, n, pnum, pden, anum) ==
    IF k < 0 THEN 0
    ELSE RejectionMass(k - 1, n, pnum, pden, anum)
         + (IF AtMostAlpha(k, n, pnum, pden, anum)
            THEN BinomPmf(k, n, pnum, pden) ELSE 0)

\* is the p-value of count c under one alternative at most alpha ?
AtMostAlphaOf(c, n, pnum, pden, anum, alternative) ==
    PValue(c, n, pnum, pden, alternative) * AlphaDen <= anum * One(n, pden)

\* P(p-value <= alpha) when c ~ Binomial(n, p0), for one alternative: the
\* mass of the counts 0..k whose p-value is at most alpha
RECURSIVE RejectionMassOf(_, _, _, _, _, _)
RejectionMassOf(k, n, pnum, pden, anum, alternative) ==
    IF k < 0 THEN 0
    ELSE RejectionMassOf(k - 1, n, pnum, pden, anum, alternative)
         + (IF AtMostAlphaOf(k, n, pnum, pden, anum, alternative)
            THEN BinomPmf(k, n, pnum, pden) ELSE 0)

\* the experiment "the p-value is a random variable": the distribution of
\* the two-sided p-value against the true p0, read at the threshold alpha
\* (mass), and the same reading for each alternative (by)
null_experiment(n, pnum, pden, anum) ==
    [status |-> "ok",
     mass   |-> RejectionMass(n, n, pnum, pden, anum),
     by     |-> [a \in Alternatives |->
                    RejectionMassOf(n, n, pnum, pden, anum, a)],
     den    |-> One(n, pden)]

(* --------------------------- the decision rule ------------------------- *)

\* slip: rejects also when the p-value equals alpha
Decide_le(pvalue, den, anum) ==
    IF pvalue * AlphaDen <= anum * den
    THEN "reject H0"
    ELSE "fail to reject H0"

\* steps 7 and 8 of the recipe: if the p-value is lower than alpha, reject
\* H0; else, fail to reject H0.  The p-value is pvalue/den, alpha is
\* anum/AlphaDen.
Decide(pvalue, den, anum) ==
    IF pvalue * AlphaDen < anum * den
    THEN "reject H0"
    ELSE "fail to reject H0"

(* ------------------------------ the machine ---------------------------- *)

NoCall == [op |-> "none"]

NoResult == [status |-> "none"]

\* the callers whose invocations may interleave
Callers == 1 .. NCallers

\* the arguments the interleaved invocations are made with: two valid
\* one-sided tests of the same data, a valid two-sided test, an invalid n
ConcInputs ==
    { [c |-> 1, n |-> 2, pnum |-> 1, pden |-> 2, alternative |-> "greater"],
      [c |-> 1, n |-> 2, pnum |-> 1, pden |-> 2, alternative |-> "less"],
      [c |-> 2, n |-> 3, pnum |-> 1, pden |-> 3, alternative |-> "two-sided"],
      [c |-> 0, n |-> 0, pnum |-> 1, pden |-> 2, alternative |-> "greater"] }

IdleFrame == [pc |-> "idle", args |-> NoCall, result |-> NoResult]

Init ==
    /\ pc = "idle"
    /\ call = NoCall
    /\ result = NoResult
    /\ frames = [i \in Callers |-> IdleFrame]
    /\ globals = NoCall
    /\ log = [a \in ConcInputs |-> {}]

\* a caller passes (c, n, p0, alternative) to the test
InvokeTest ==
    /\ pc = "idle"
    /\ \E n \in NValues, r \in Rates, alternative \in Alternatives :
         \E c \in CValues(n) :
            call' = [op |-> "test_proportion", c |-> c, n |-> n,
                     pnum |-> r[1], pden |-> r[2],
                     alternative |-> alternative]
    /\ pc' = "called"
    /\ UNCHANGED result
    /\ UNCHANGED conc

\* the test runs: validation, then the p-value of the alternative
TestProportion ==
    /\ pc = "called"
    /\ call.op = "test_proportion"
    /\ result' = test_proportion(call.c, call.n, call.pnum, call.pden,
                                 call.alternative)
    /\ pc' = "returned"
    /\ UNCHANGED call
    /\ UNCHANGED conc

\* the experiment cell is run for a valid (n, p0) and a threshold alpha
InvokeExperiment ==
    /\ pc = "idle"
    /\ \E n \in 1 .. MaxN, r \in InteriorRates, anum \in 0 .. AlphaDen :
            call' = [op |-> "null_experiment", n |-> n,
                     pnum |-> r[1], pden |-> r[2], anum |-> anum]
    /\ pc' = "called"
    /\ UNCHANGED result
    /\ UNCHANGED conc

\* the experiment runs
NullExperiment ==
    /\ pc = "called"
    /\ call.op = "null_experiment"
    /\ result' = null_experiment(call.n, call.pnum, call.pden, call.anum)
    /\ pc' = "returned"
    /\ UNCHANGED call
    /\ UNCHANGED conc

\* the A/B cells are run on the counts of the two groups
InvokeAB ==
    /\ pc = "idle"
    /\ \E na \in 1 .. MaxDen, nb \in 1 .. MaxN :
         \E ca \in 0 .. na, cb \in 0 .. nb :
            call' = [op |-> "ab_test", ca |-> ca, na |-> na,
                     cb |-> cb, nb |-> nb]
    /\ pc' = "called"
    /\ UNCHANGED result
    /\ UNCHANGED conc

\* the A/B cells run
ABTest ==
    /\ pc = "called"
    /\ call.op = "ab_test"
    /\ result' = ab_test(call.ca, call.na, call.cb, call.nb)
    /\ pc' = "returned"
    /\ UNCHANGED call
    /\ UNCHANGED conc

\* a cell is run on the inputs written in it
InvokeRecorded ==
    /\ pc = "idle"
    /\ \E cell \in RecordedCells :
            call' = [op |-> "recorded_cell", cell |-> cell]
    /\ pc' = "called"
    /\ UNCHANGED result
    /\ UNCHANGED conc

\* the cell prints its two p-values
RecordedCell ==
    /\ pc = "called"
    /\ call.op = "recorded_cell"
    /\ result' = PrintedOutputs(call.cell)
    /\ pc' = "returned"
    /\ UNCHANGED call
    /\ UNCHANGED conc

\* a significance level is chosen, then the p-value of a valid test is
\* handed to the decision rule
InvokeDecide ==
    /\ pc = "idle"
    /\ \E anum \in 0 .. AlphaDen, n \in 1 .. MaxN, r \in InteriorRates,
          alternative \in Alternatives :
         \E c \in 0 .. n :
            call' = [op |-> "decide", anum |-> anum,
                     pvalue |-> PValue(c, n, r[1], r[2], alternative),
                     den |-> One(n, r[2])]
    /\ pc' = "called"
    /\ UNCHANGED result
    /\ UNCHANGED conc

\* the decision is taken
Decision ==
    /\ pc = "called"
    /\ call.op = "decide"
    /\ result' = [status |-> "ok",
                  decision |-> Decide(call.pvalue, call.den, call.anum)]
    /\ pc' = "returned"
    /\ UNCHANGED call
    /\ UNCHANGED conc

\* the quantile cell is run for a valid (n, p) and a level q
InvokePpf ==
    /\ pc = "idle"
    /\ \E qnum \in QNums, n \in 1 .. MaxPpfN, r \in InteriorRates :
            call' = [op |-> "ppf", qnum |-> qnum, n |-> n,
                     pnum |-> r[1], pden |-> r[2]]
    /\ pc' = "called"
    /\ UNCHANGED result
    /\ UNCHANGED conc

\* the quantile is computed
Ppf ==
    /\ pc = "called"
    /\ call.op = "ppf"
    /\ result' = [status |-> "ok",
                  k |-> binom_ppf(call.qnum, call.n, call.pnum, call.pden)]
    /\ pc' = "returned"
    /\ UNCHANGED call
    /\ UNCHANGED conc

\* a sample mean is observed under a null distribution of mean mu
InvokeZ ==
    /\ pc = "idle"
    /\ \E mu \in MuValues :
         \E xbar \in (mu - MaxZ) .. (mu + MaxZ) :
            call' = [op |-> "z_test", xbar |-> xbar, mu |-> mu]
    /\ pc' = "called"
    /\ UNCHANGED result
    /\ UNCHANGED conc

\* the p-values of the normal test are computed
ZTest ==
    /\ pc = "called"
    /\ call.op = "z_test"
    /\ result' = z_test(call.xbar, call.mu)
    /\ pc' = "returned"
    /\ UNCHANGED call
    /\ UNCHANGED conc

\* the Increasing N cell is started: p = [], and the first turn begins
InvokeLoop ==
    /\ pc = "idle"
    /\ call' = [op |-> "increasing_n", nb |-> StartNb, p |-> << >>,
                 calls |-> << >>, ev |-> loop_eval(StartNb)]
    /\ pc' = "called"
    /\ UNCHANGED result
    /\ UNCHANGED conc

\* binom.cdf adds one more term, in the loop or in a cell
ExactSum ==
    /\ pc = "called"
    /\ call.op \in {"increasing_n", "notebook_cell"}
    /\ call.op = "increasing_n" => call.nb < EndNb
    /\ call.ev.phase # "done"
    /\ call' = [call EXCEPT !.ev = ExactStep(@)]
    /\ UNCHANGED pc
    /\ UNCHANGED result
    /\ UNCHANGED conc

\* the end of one turn of the loop: p_ is known, p.append(p_), and the
\* next nb and its cb are taken
LoopStep ==
    /\ pc = "called"
    /\ call.op = "increasing_n"
    /\ call.nb < EndNb
    /\ call.ev.phase = "done"
    /\ call' = [call EXCEPT
                    !.nb = @ + 1,
                    !.p = Append(@, ExactUpper(call.ev)),
                    !.calls = Append(@, [c |-> loop_cb(call.nb),
                                         n |-> call.nb]),
                    !.ev = loop_eval(call.nb + 1)]
    /\ UNCHANGED pc
    /\ UNCHANGED result
    /\ UNCHANGED conc

\* the range is exhausted: the list p is what the cell plots
LoopEnd ==
    /\ pc = "called"
    /\ call.op = "increasing_n"
    /\ call.nb >= EndNb
    /\ result' = [status |-> "ok", p |-> call.p]
    /\ pc' = "returned"
    /\ UNCHANGED call
    /\ UNCHANGED conc

\* one of the cells of the notebook is run
InvokeCell ==
    /\ pc = "idle"
    /\ \E cell \in NotebookCells :
            call' = [op |-> "notebook_cell", cell |-> cell,
                     ev |-> cell_eval(cell)]
    /\ pc' = "called"
    /\ UNCHANGED result
    /\ UNCHANGED conc

\* the cell prints its p-value
NotebookCell ==
    /\ pc = "called"
    /\ call.op = "notebook_cell"
    /\ call.ev.phase = "done"
    /\ result' = [status |-> "ok",
                  c      |-> CellInputs(call.cell).c,
                  n      |-> CellInputs(call.cell).n,
                  pvalue |-> ExactUpper(call.ev),
                  den    |-> call.ev.one]
    /\ pc' = "returned"
    /\ UNCHANGED call
    /\ UNCHANGED conc

\* the caller has read the result; nothing is kept between invocations
Return ==
    /\ pc = "returned"
    /\ pc' = "idle"
    /\ call' = NoCall
    /\ result' = NoResult
    /\ UNCHANGED conc

Next ==
    \/ InvokeTest
    \/ TestProportion
    \/ InvokeExperiment
    \/ NullExperiment
    \/ InvokeAB
    \/ ABTest
    \/ InvokeRecorded
    \/ RecordedCell
    \/ InvokeDecide
    \/ Decision
    \/ InvokePpf
    \/ Ppf
    \/ InvokeZ
    \/ ZTest
    \/ InvokeLoop
    \/ ExactSum
    \/ LoopStep
    \/ LoopEnd
    \/ InvokeCell
    \/ NotebookCell
    \/ Return

Spec == Init /\ [][Next]_vars

(* ----------------------- invocations in flight together ---------------- *)

\* slip: the test reads the module-level names when it runs
ArgsSeen_globals(i) == globals

\* the arguments invocation i computes with: those passed to it
ArgsSeen(i) == frames[i].args

\* caller i assigns the inputs at module level and calls the test with them
Invoke(i) ==
    /\ frames[i].pc = "idle"
    /\ \E a \in ConcInputs :
         /\ globals' = a
         /\ frames' = [frames EXCEPT ![i] =
                          [pc |-> "called", args |-> a, result |-> NoResult]]
    /\ UNCHANGED log
    /\ UNCHANGED seq

\* the test of caller i runs
Run(i) ==
    /\ frames[i].pc = "called"
    /\ frames' = [frames EXCEPT ![i] =
                    [pc     |-> "returned",
                     args   |-> frames[i].args,
                     result |-> test_proportion(ArgsSeen(i).c, ArgsSeen(i).n,
                                                ArgsSeen(i).pnum,
                                                ArgsSeen(i).pden,
                                                ArgsSeen(i).alternative)]]
    /\ UNCHANGED <<globals, log>>
    /\ UNCHANGED seq

\* caller i reads its result; the frame is gone
Collect(i) ==
    /\ frames[i].pc = "returned"
    /\ log' = [log EXCEPT ![frames[i].args] = @ \cup {frames[i].result}]
    /\ frames' = [frames EXCEPT ![i] = IdleFrame]
    /\ UNCHANGED globals
    /\ UNCHANGED seq

NextConcurrent ==
    \/ \E i \in Callers : Invoke(i)
    \/ \E i \in Callers : Run(i)
    \/ \E i \in Callers : Collect(i)

SpecConcurrent == Init /\ [][NextConcurrent]_vars

(* ------------------------------ vocabulary ----------------------------- *)

\* the test has returned a TestResult for a valid input
Tested ==
    /\ pc = "returned"
    /\ call.op = "test_proportion"
    /\ result.status = "ok"

\* the claims' valid inputs: n > 0, 0 <= c <= n, 0 < p0 < 1
ValidInput(c, n, pnum, pden) ==
    /\ n > 0
    /\ c >= 0
    /\ c <= n
    /\ pnum > 0
    /\ pnum < pden

\* the test has returned for a valid input with p0 strictly inside (0, 1)
TestedValid ==
    /\ Tested
    /\ ValidInput(call.c, call.n, call.pnum, call.pden)

\* sum of the binomial PMF over lo..hi
RECURSIVE PmfSum(_, _, _, _, _)
PmfSum(lo, hi, n, pnum, pden) ==
    IF lo > hi THEN 0
    ELSE BinomPmf(lo, n, pnum, pden) + PmfSum(lo + 1, hi, n, pnum, pden)

\* the test has returned, with a TestResult or with an error
TestReturned ==
    /\ pc = "returned"
    /\ call.op = "test_proportion"

\* the experiment has returned
Experimented ==
    /\ pc = "returned"
    /\ call.op = "null_experiment"

(* ------------------------------- claims -------------------------------- *)

\* C1: for a valid input and alternative 'greater' the p-value is
\* P(X >= c), the sum of the binomial PMF over c..n, and that sum is the
\* complement of the sum over 0..c-1, i.e. 1 - CDF(c-1) with CDF(-1) = 0.
C1_GreaterIsUpperTail ==
    (TestedValid /\ call.alternative = "greater") =>
        /\ result.pvalue
             = PmfSum(call.c, call.n, call.n, call.pnum, call.pden)
        /\ result.pvalue
             = result.den - PmfSum(0, call.c - 1, call.n, call.pnum, call.pden)
        /\ result.den = One(call.n, call.pden)

\* a 'greater' test of a count strictly inside 0..n, with a p-value
\* strictly between 0 and 1
C1_Witness ==
    /\ TestedValid
    /\ call.alternative = "greater"
    /\ call.c > 0
    /\ call.c < call.n
    /\ result.pvalue > 0
    /\ result.pvalue < result.den

\* C2: for a valid input and alternative 'less' the p-value is
\* CDF(c) = P(X <= c), the sum of the binomial PMF over 0..c.
C2_LessIsLowerTail ==
    (TestedValid /\ call.alternative = "less") =>
        /\ result.pvalue = PmfSum(0, call.c, call.n, call.pnum, call.pden)
        /\ result.den = One(call.n, call.pden)

\* a 'less' test of a count strictly inside 0..n, with a p-value strictly
\* between 0 and 1
C2_Witness ==
    /\ TestedValid
    /\ call.alternative = "less"
    /\ call.c > 0
    /\ call.c < call.n
    /\ result.pvalue > 0
    /\ result.pvalue < result.den

\* the p-value the test returns for the call's (c, n, p0) under another
\* alternative
SameTest(alternative) ==
    test_proportion(call.c, call.n, call.pnum, call.pden, alternative).pvalue

\* C3: for a valid input the two-sided p-value is
\* min(1, 2 * min(p_greater, p_less)), the one-sided values being those of
\* the same test on the same (c, n, p0).
C3_TwoSidedIsDoubledMin ==
    (TestedValid /\ call.alternative = "two-sided") =>
        result.pvalue
          = Min(result.den, 2 * Min(SameTest("greater"), SameTest("less")))

\* a two-sided test where the doubled smaller tail is above 1 and is capped
C3_Witness ==
    /\ TestedValid
    /\ call.alternative = "two-sided"
    /\ 2 * Min(SameTest("greater"), SameTest("less")) > result.den
    /\ result.pvalue = result.den

\* C4: for a valid input and every alternative the p-value lies in [0, 1];
\* the two-sided value does not exceed 1 even when both tails are above 1/2.
C4_PValueInUnitInterval ==
    TestedValid =>
        /\ result.pvalue >= 0
        /\ result.pvalue <= result.den

\* a two-sided test with both one-sided tails above 1/2
C4_Witness ==
    /\ TestedValid
    /\ call.alternative = "two-sided"
    /\ 2 * SameTest("greater") > result.den
    /\ 2 * SameTest("less") > result.den
    /\ result.pvalue <= result.den

\* C5: for fixed n, p0 and alternative 'greater', the p-value of any
\* count c2 >= c is at most the p-value of c.
C5_GreaterMonotoneInCount ==
    (TestedValid /\ call.alternative = "greater") =>
        \A c2 \in call.c .. call.n :
            test_proportion(c2, call.n, call.pnum, call.pden,
                            "greater").pvalue <= result.pvalue

\* a 'greater' test with a larger count whose p-value is strictly smaller
C5_Witness ==
    /\ TestedValid
    /\ call.alternative = "greater"
    /\ \E c2 \in (call.c + 1) .. call.n :
            test_proportion(c2, call.n, call.pnum, call.pden,
                            "greater").pvalue < result.pvalue

NoCloserThanCall(c2) ==
    Abs(call.c * call.pden - call.n * call.pnum)
        <= Abs(c2 * call.pden - call.n * call.pnum)

\* c and c2 deviate from n*p0 in the direction the alternative tests:
\* upward for 'greater', downward for 'less', to the same side for
\* 'two-sided'
SameDirection(c2) ==
    LET d1 == call.c * call.pden - call.n * call.pnum
        d2 == c2 * call.pden - call.n * call.pnum
        up == d1 >= 0 /\ d2 >= 0
        down == d1 <= 0 /\ d2 <= 0
    IN  CASE call.alternative = "greater"   -> up
          [] call.alternative = "less"      -> down
          [] call.alternative = "two-sided" -> up \/ down

\* the p-value of count c2 under the call's n, p0 and alternative
OtherCount(c2) ==
    test_proportion(c2, call.n, call.pnum, call.pden,
                    call.alternative).pvalue

LargerSamples ==
    { s \in (0 .. MaxN) \X (1 .. MaxN) :
        /\ s[2] > call.n
        /\ s[1] * call.n = call.c * s[2] }

\* the p-value of the sample s under the call's p0 and alternative, and the
\* call's p-value, both over the denominator pden^(s[2])
LargerPValue(s) ==
    test_proportion(s[1], s[2], call.pnum, call.pden,
                    call.alternative).pvalue

CallPValueOver(s) ==
    result.pvalue * Pow(call.pden, s[2] - call.n)

\* C9 as stated: for fixed p0 and alternative and a fixed observed
\* proportion different from p0, the larger sample has the strictly
\* smaller p-value.
C9_StrictlyDecreasingInN ==
    (TestedValid /\ call.c * call.pden # call.n * call.pnum) =>
        \A s \in LargerSamples : LargerPValue(s) < CallPValueOver(s)

\* C9, amended: the larger sample has the strictly smaller p-value for
\* 'greater' when c/n > p0 and for 'less' when c/n < p0; for 'two-sided'
\* with c/n # p0 it has a p-value that is not larger, and strictly smaller
\* unless the smaller sample's p-value is 1.
C9_DecreasingInNInDirection ==
    (TestedValid /\ call.c * call.pden # call.n * call.pnum) =>
        \A s \in LargerSamples :
            /\ (/\ call.alternative = "greater"
                /\ call.c * call.pden > call.n * call.pnum)
                    => LargerPValue(s) < CallPValueOver(s)
            /\ (/\ call.alternative = "less"
                /\ call.c * call.pden < call.n * call.pnum)
                    => LargerPValue(s) < CallPValueOver(s)
            /\ call.alternative = "two-sided"
                    => /\ LargerPValue(s) <= CallPValueOver(s)
                       /\ (result.pvalue < result.den
                            => LargerPValue(s) < CallPValueOver(s))

\* a 'greater' test with c/n > p0, 0 < c < n, and a larger sample of the
\* same proportion
C9_Witness ==
    /\ TestedValid
    /\ call.alternative = "greater"
    /\ call.c * call.pden > call.n * call.pnum
    /\ call.c < call.n
    /\ \E s \in LargerSamples : LargerPValue(s) < CallPValueOver(s)

\* C10: for every valid n and p0, the test with c = 0 and alternative
\* 'greater' returns p-value exactly 1.
C10_ZeroCountGreaterIsOne ==
    (TestedValid /\ call.alternative = "greater" /\ call.c = 0) =>
        result.pvalue = result.den

\* the spec's example: c = 0, n = 10, p0 = 1/2, 'greater'
C10_Witness ==
    /\ TestedValid
    /\ call.alternative = "greater"
    /\ call.c = 0
    /\ call.n = 10
    /\ call.pnum = 1
    /\ call.pden = 2
    /\ result.pvalue = result.den

\* C11: for p0 = 0 or p0 = 1, with valid n and c and any alternative, the
\* outcome is an InvalidParameter error or a TestResult whose p-value is
\* exactly 0 or exactly 1.
C11_DegenerateBaseline ==
    (/\ TestReturned
     /\ call.n > 0
     /\ call.c >= 0
     /\ call.c <= call.n
     /\ call.pnum \in {0, call.pden})
        => \/ result.status = "InvalidParameter"
           \/ /\ result.status = "ok"
              /\ result.pvalue \in {0, result.den}

\* a 'greater' test against p0 = 0 of a positive count, with p-value 0,
\* the test against p0 = 1 of the same count having p-value 1
C11_Witness ==
    /\ Tested
    /\ call.alternative = "greater"
    /\ call.pnum = 0
    /\ call.c > 0
    /\ call.c < call.n
    /\ result.pvalue = 0
    /\ test_proportion(call.c, call.n, call.pden, call.pden,
                       "greater").pvalue = result.den

\* C12: for every valid input the TestResult carries the observed
\* proportion c/n, a value in [0,1], and the alternative that was passed
\* in, whatever p0 is.
C12_ResultCarriesRateAndAlternative ==
    TestedValid =>
        /\ result.statistic.den > 0
        /\ result.statistic.num * call.n = call.c * result.statistic.den
        /\ result.statistic.num >= 0
        /\ result.statistic.num <= result.statistic.den
        /\ result.alternative = call.alternative
        /\ \A r \in InteriorRates :
              LET other == test_proportion(call.c, call.n, r[1], r[2],
                                           call.alternative)
              IN  /\ other.statistic = result.statistic
                  /\ other.alternative = result.alternative

\* a test of a count strictly inside 0..n whose proportion reduces, as
\* 30/100 = 3/10 does
C12_Witness ==
    /\ TestedValid
    /\ call.c > 0
    /\ call.c < call.n
    /\ result.statistic.den < call.n
    /\ result.statistic.num * call.n = call.c * result.statistic.den

\* the TestResult, or the error, of an invocation run alone on args
Alone(a) ==
    IF a.n <= 0 \/ a.c < 0 \/ a.c > a.n \/ a.pnum < 0 \/ a.pnum > a.pden
    THEN [status |-> "InvalidParameter"]
    ELSE [status      |-> "ok",
          statistic   |-> ObservedRate(a.c, a.n),
          pvalue      |-> CASE a.alternative = "greater" ->
                                  PmfSum(a.c, a.n, a.n, a.pnum, a.pden)
                            [] a.alternative = "less" ->
                                  PmfSum(0, a.c, a.n, a.pnum, a.pden)
                            [] a.alternative = "two-sided" ->
                                  Min(One(a.n, a.pden),
                                      2 * Min(PmfSum(a.c, a.n, a.n,
                                                     a.pnum, a.pden),
                                              PmfSum(0, a.c, a.n,
                                                     a.pnum, a.pden))),
          den         |-> One(a.n, a.pden),
          alternative |-> a.alternative]

ABTested ==
    /\ pc = "returned"
    /\ call.op = "ab_test"

\* a cell with kept outputs has printed them
Printed ==
    /\ pc = "returned"
    /\ call.op = "recorded_cell"

\* C15 as stated: the hand-written 1 - binom.cdf(c-1, n, p) equals
\* binomtest(c, n, p, 'greater').pvalue, for every valid input and in the
\* two cells whose outputs the notebook shows.
C15_HandWrittenEqualsBinomtest ==
    /\ ABTested => result.pvalue = result.scipy
    /\ Printed => result.pvalue = result.scipy

\* C15, amended: the two are equal as exact probabilities for every valid
\* input; the two printed floating-point values of a cell agree in their
\* first 15 decimals.
C15_EqualUpToRounding ==
    /\ ABTested => result.pvalue = result.scipy
    /\ Printed => SubSeq(result.pvalue, 1, 15) = SubSeq(result.scipy, 1, 15)

\* the A/B cells on a count strictly inside 0..nb against a baseline
\* strictly inside (0,1), and a p-value strictly between 0 and 1
C15_Witness ==
    /\ ABTested
    /\ call.ca > 0
    /\ call.ca < call.na
    /\ call.cb > 0
    /\ call.cb < call.nb
    /\ result.pvalue > 0
    /\ result.pvalue < result.den
    /\ result.scipy = result.pvalue

Decided ==
    /\ pc = "returned"
    /\ call.op = "decide"

\* C16: the outcome is 'reject H0' exactly when the p-value is below
\* alpha, and 'fail to reject H0' otherwise; it is never 'accept H0'.
C16_DecisionRule ==
    Decided =>
        /\ result.decision = "reject H0"
             <=> call.pvalue * AlphaDen < call.anum * call.den
        /\ result.decision = "fail to reject H0"
             <=> call.pvalue * AlphaDen >= call.anum * call.den
        /\ result.decision \in {"reject H0", "fail to reject H0"}
        /\ result.decision # "accept H0"

\* a p-value equal to a significance level strictly between 0 and 1: H0
\* is not rejected
C16_Witness ==
    /\ Decided
    /\ call.anum > 0
    /\ call.anum < AlphaDen
    /\ call.pvalue * AlphaDen = call.anum * call.den
    /\ result.decision = "fail to reject H0"

\* the quantile has been computed
PpfDone ==
    /\ pc = "returned"
    /\ call.op = "ppf"

\* CDF(k; n, p) of the quantile call, as the sum of the PMF over 0..k
CallCdf(k) == PmfSum(0, k, call.n, call.pnum, call.pden)

\* k is the smallest integer in 0..n with CDF(k) >= q, and the probability
\* of more than k successes is at most 1 - q
IsQuantile(k) ==
    /\ k \in 0 .. call.n
    /\ CallCdf(k) * QDen >= call.qnum * One(call.n, call.pden)
    /\ (k > 0 =>
           CallCdf(k - 1) * QDen < call.qnum * One(call.n, call.pden))
    /\ \A j \in 0 .. (k - 1) :
           CallCdf(j) * QDen < call.qnum * One(call.n, call.pden)
    /\ (One(call.n, call.pden) - CallCdf(k)) * QDen
           <= (QDen - call.qnum) * One(call.n, call.pden)

ZTested ==
    /\ pc = "returned"
    /\ call.op = "z_test"

\* F(xbar), the CDF of the null distribution at the sample mean
CallF == norm_cdf(call.xbar, call.mu)

LoopDone ==
    /\ pc = "returned"
    /\ call.op = "increasing_n"

\* the values of nb the loop has run over
LoopRange == StartNb .. (StartNb + Len(result.p) - 1)

\* the numerator of p_(nb) in the list, over PaDen^nb
ListP(nb) == result.p[nb - StartNb + 1]

\* the numerator of p_(nb) over PaDen^(nb + k)
RECURSIVE Scaled(_, _)
Scaled(nb, k) ==
    IF k = 0 THEN ListP(nb) ELSE BigMul(Scaled(nb, k - 1), PaDen)

\* C20 as stated: in the Increasing N loop the p-value decreases when nb
\* increases, p_(nb+1) <= p_(nb) for every consecutive pair of the range.
C20_DecreasingAtEveryStep ==
    LoopDone =>
        \A nb \in LoopRange :
            (nb + 1) \in LoopRange =>
                ~BigLess(Scaled(nb, 1), ListP(nb + 1))

\* C20, amended: p_ rises at every step that leaves cb unchanged and
\* falls at every step where cb increases (nb+1 a multiple of 5); over
\* five steps it always falls, p_(nb+5) < p_(nb).
C20_DescendingWithRipple ==
    LoopDone =>
        /\ Len(result.p) = EndNb - StartNb
        /\ \A nb \in LoopRange :
               (nb + 1) \in LoopRange =>
                   IF (nb + 1) % PbDen = 0
                   THEN BigLess(ListP(nb + 1), Scaled(nb, 1))
                   ELSE BigLess(Scaled(nb, 1), ListP(nb + 1))
        /\ \A nb \in LoopRange :
               (nb + PbDen) \in LoopRange =>
                   BigLess(ListP(nb + PbDen), Scaled(nb, PbDen))

\* the loop has run over its whole range; its first value is
\* 1 - CDF(1; 5, 0.1) = 0.08146, the second is larger and the sixth,
\* where cb becomes 2, is smaller than the fifth
C20_Witness ==
    /\ LoopDone
    /\ Len(result.p) = EndNb - StartNb
    /\ ListP(StartNb)
         = BigOfInt(One(StartNb, PaDen)
                      - BinomCdf(loop_cb(StartNb), StartNb, PaNum, PaDen))
    /\ ListP(StartNb) = BigOfInt(8146)
    /\ BigLess(Scaled(StartNb, 1), ListP(StartNb + 1))
    /\ BigLess(ListP(StartNb + 5), Scaled(StartNb + 4, 1))

\* a cell of the notebook has computed its p-value
CellDone ==
    /\ pc = "returned"
    /\ call.op = "notebook_cell"

\* the Observation invariant: an integer count 0 <= c <= n out of n > 0
Observation(c, n) ==
    /\ c \in Int
    /\ n \in Int
    /\ 0 <= c
    /\ c <= n
    /\ n > 0

\* C21: every (c, n) the notebook hands to a binomial computation is an
\* Observation, 0 <= c <= n and n > 0: the counts written in its cells,
\* and (cb, nb) with cb = int(nb*pb) at every turn of the Increasing N
\* loop, nb in 5..99.
C21_ObservationInvariant ==
    /\ CellDone => Observation(result.c, result.n)
    /\ call.op = "increasing_n" =>
          \A i \in 1 .. Len(call.calls) :
              /\ Observation(call.calls[i].c, call.calls[i].n)
              /\ call.calls[i].n = StartNb + i - 1
              /\ call.calls[i].c * PbDen <= call.calls[i].n * PbNum
              /\ (call.calls[i].c + 1) * PbDen > call.calls[i].n * PbNum

\* the loop has handed over every nb of 5..99, with cb growing from 1 to 19
C21_Witness ==
    /\ LoopDone
    /\ Len(call.calls) = EndNb - StartNb
    /\ call.calls[1] = [c |-> 1, n |-> StartNb]
    /\ call.calls[Len(call.calls)].n = EndNb - 1
    /\ call.calls[Len(call.calls)].c = 19

\* the number written by the first i of the decimals d, as an integer
RECURSIVE DigitsValue(_, _)
DigitsValue(d, i) ==
    IF i = 0 THEN 0 ELSE 10 * DigitsValue(d, i - 1) + d[i]

\* the cell "at least k conversions" has printed its value
AtLeastKDone ==
    /\ CellDone
    /\ call.cell = "at_least_k"

\* C22: for n = 10, p = 0.5, k = 6 the value 1 - CDF(k-1) is exactly
\* (C(10,6)+C(10,7)+C(10,8)+C(10,9)+C(10,10)) / 2^10 = 386/1024, which is
\* the printed 0.376953125 (386 * 5^9 = 2 * 376953125 and
\* 1024 * 5^9 = 2 * 10^9).
C22_AtLeastKExact ==
    AtLeastKDone =>
        /\ result.n = 10
        /\ result.c = 6
        /\ result.den = BigOfInt(Pow(2, 10))
        /\ result.den = BigOfInt(1024)
        /\ result.pvalue
             = BigOfInt(Choose(10, 6) + Choose(10, 7) + Choose(10, 8)
                          + Choose(10, 9) + Choose(10, 10))
        /\ result.pvalue = BigOfInt(386)
        /\ Len(PrintedValue(call.cell)) = 9
        /\ 386 * Pow(5, 9) = 2 * DigitsValue(PrintedValue(call.cell), 9)
        /\ 1024 * Pow(5, 9) = 2 * Pow(10, 9)

\* the cell has summed the six terms of CDF(5) and printed 386/1024
C22_Witness ==
    /\ AtLeastKDone
    /\ call.ev.k = 5
    /\ call.ev.i = 6
    /\ call.ev.acc = BigOfInt(1024 - 386)
    /\ result.pvalue = BigOfInt(386)
    /\ DigitsValue(PrintedValue(call.cell), 9) = 376953125

\* num/den, rounded to four decimals, is d/10000
FourDecimals(num, den, d) ==
    /\ ~BigLess(BigMul(num, 20000), BigMul(den, 2 * d - 1))
    /\ BigLess(BigMul(num, 20000), BigMul(den, 2 * d + 1))

\* num/den < 0.05
BelowFivePercent(num, den) == BigLess(BigMul(num, 20), den)

\* num/den > 0.05
AboveFivePercent(num, den) == BigLess(den, BigMul(num, 20))

\* the first five printed decimals, rounded to four
PrintedFourDecimals(cell) == (DigitsValue(PrintedValue(cell), 5) + 5) \div 10

\* C23: the 'greater' scenario (n=50, c=10, p0=0.1) gives the p-value
\* 0.0245 to four decimals, below 0.05; the scenario (n=100, c=83,
\* p0=0.77) gives 0.0926 to four decimals, above 0.05.
C23_ConcreteScenarios ==
    /\ (CellDone /\ call.cell = "new_website") =>
          /\ result.c = 10
          /\ result.n = 50
          /\ FourDecimals(result.pvalue, result.den, 245)
          /\ PrintedFourDecimals(call.cell) = 245
          /\ BelowFivePercent(result.pvalue, result.den)
    /\ (CellDone /\ call.cell = "classifiers") =>
          /\ result.c = 83
          /\ result.n = 100
          /\ FourDecimals(result.pvalue, result.den, 926)
          /\ PrintedFourDecimals(call.cell) = 926
          /\ AboveFivePercent(result.pvalue, result.den)

\* the classifiers cell has summed the 83 terms of CDF(82; 100, 0.77) and
\* its p-value lies strictly between 0.05 and 0.1
C23_Witness ==
    /\ CellDone
    /\ call.cell = "classifiers"
    /\ call.ev.k = 82
    /\ call.ev.i = 83
    /\ AboveFivePercent(result.pvalue, result.den)
    /\ BigLess(BigMul(result.pvalue, 10), result.den)
    /\ FourDecimals(result.pvalue, result.den, 926)

\* a turn of the loop has its value p_, which is about to be appended
TurnDone ==
    /\ pc = "called"
    /\ call.op = "increasing_n"
    /\ call.nb < EndNb
    /\ call.ev.phase = "done"

\* the value of the turn: 1 - CDF(cb; nb, pa)
TurnValue == ExactUpper(call.ev)

\* the 'greater' p-value of the turn's (cb, nb): 1 - CDF(cb-1; nb, pa)
TurnGreater == BigSub(call.ev.one, call.ev.prev)

\* does PaDen^nb fit a machine integer ?
SmallTurn == call.nb < 10

C25_TypeOneErrorBound ==
    Experimented =>
        \A a \in Alternatives :
            /\ result.by[a] * AlphaDen <= call.anum * result.den
            /\ result.by[a] >= 0
            /\ (call.anum = 0 => result.by[a] = 0)
            /\ (call.anum = AlphaDen => result.by[a] = result.den)

\* an experiment at a threshold below 1 where each one-sided test rejects
\* some counts, with a total probability strictly below the threshold for
\* 'greater' and a positive one for the two-sided test
C25_Witness ==
    /\ Experimented
    /\ call.anum > 0
    /\ call.anum < AlphaDen
    /\ result.by["greater"] > 0
    /\ result.by["less"] > 0
    /\ result.by["two-sided"] > 0
    /\ result.by["greater"] * AlphaDen < call.anum * result.den
    /\ result.by["two-sided"] = result.mass

\* the two one-sided p-values of the call's input, whichever was asked
CallGreater == pGreater(call.c, call.n, call.pnum, call.pden)

CallLess == pLess(call.c, call.n, call.pnum, call.pden)

\* C26: for a valid (n, p0) and 1 <= c <= n, p_greater(c) + p_less(c-1)
\* = 1; for 0 <= c <= n, p_greater(c) + p_less(c) = 1 + PMF(c) >= 1, so
\* that at least one of the two one-sided p-values at c is >= 1/2.
C26_OneSidedComplement ==
    TestedValid =>
        /\ (call.alternative = "greater" => result.pvalue = CallGreater)
        /\ (call.alternative = "less" => result.pvalue = CallLess)
        /\ (call.c >= 1 =>
              CallGreater
                + pLess(call.c - 1, call.n, call.pnum, call.pden)
                = result.den)
        /\ CallGreater + CallLess
             = result.den
               + BinomPmf(call.c, call.n, call.pnum, call.pden)
        /\ CallGreater + CallLess >= result.den
        /\ (2 * CallGreater >= result.den \/ 2 * CallLess >= result.den)

\* a 'less' test has returned a p-value below 1/2 for a count 1 <= c < n
\* whose 'greater' p-value is above 1/2, the two adding up to more than 1
C26_Witness ==
    /\ TestedValid
    /\ call.alternative = "less"
    /\ call.c >= 1
    /\ call.c < call.n
    /\ 2 * result.pvalue < result.den
    /\ 2 * CallGreater > result.den
    /\ CallGreater + result.pvalue > result.den

====
